---- MODULE Spec2Model ----
(***************************************************************************)
(* Model of scripts/generate_pdf.py: the command-line entry point and      *)
(* generate_report (trace loading, facts resolution with fallback, the     *)
(* task timeline fold, the structured document and the rendered rows).     *)
(*                                                                         *)
(* Text is modelled as a sequence of one-character strings, so that        *)
(* splitting, slicing and length are computed as the code computes them.   *)
(* A formatted message (an f-string) is the sequence of its pieces.        *)
(* A Python dict of facts is a function from its keys to their values; a   *)
(* dict of hosts is the sequence of its values in insertion order.         *)
(***************************************************************************)
EXTENDS Integers, Sequences, FiniteSets, TLC

VARIABLES
    argc,              \* number of positional arguments (len(sys.argv) - 1)
    playbook_file,     \* "ok", "missing" or "unparseable"
    playbook_data,     \* the parsed trace: [has_plays, plays]
    facts_in,          \* the facts_file argument and what it holds
    pc,                \* position in the run
    facts_data,        \* the fact set (a dict)
    fact_error,        \* <<>> for None, else the pieces of the marker
    system_info,       \* [Hostname, Kernel]
    pi, ti,            \* play and task position of the timeline loop
    sequential_tasks,  \* the timeline built so far
    json_doc,          \* <<>> until final_report.json is written, then <<doc>>
    ri,                \* row position of the rendering loop
    pdf_rows,          \* the task rows handed to pdf.cell, as [task, status, changed]
    files,             \* names of the files written to report_dir
    stdout,            \* what was printed, in order
    stderr,            \* uncaught exceptions reported by the interpreter
    exit_status        \* process exit status, meaningful once pc = "done"

vars == <<argc, playbook_file, playbook_data, facts_in, pc, facts_data,
          fact_error, system_info, pi, ti, sequential_tasks, json_doc, ri,
          pdf_rows, files, stdout, stderr, exit_status>>

(***************************************************************************)
(* Bounds of the model.                                                    *)
(***************************************************************************)
MaxArgs == 4
MaxHosts == 3
MaxTasks == 3
MaxNameLen == 95

(***************************************************************************)
(* Constants of the program.                                               *)
(***************************************************************************)
ArgvMin == 3
ArgsUsed == 3
TruncLimit == 90
TruncKeep == 87

GATHERING_FACTS ==
    <<"G","a","t","h","e","r","i","n","g"," ","F","a","c","t","s">>
SEPARATOR == <<" ", ":", " ">>
ELLIPSIS == <<".", ".", ".">>

(***************************************************************************)
(* clean_task_name: keep the text after the first " : ", if there is one.  *)
(***************************************************************************)
SepAt(task_name) ==
    {i \in 1..(Len(task_name) - 2) : SubSeq(task_name, i, i + 2) = SEPARATOR}

Min(S) == CHOOSE x \in S : \A y \in S : x <= y

clean_task_name(task_name) ==
    IF SepAt(task_name) # {}
    THEN SubSeq(task_name, Min(SepAt(task_name)) + 3, Len(task_name))
    ELSE task_name

(***************************************************************************)
(* Dict helpers.                                                           *)
(***************************************************************************)
EmptyDict == [k \in {} |-> ""]
Truthy(d) == DOMAIN d # {}

(***************************************************************************)
(* Reading the facts file (step 2 of generate_report).                     *)
(***************************************************************************)
MsgOf(raw) == IF raw.has_msg THEN raw.msg ELSE "Unknown Error"

FactsLoaded(f) ==
    IF f.kind # "ok" THEN [facts_data |-> EmptyDict, fact_error |-> <<>>]
    ELSE IF f.has_facts
         THEN [facts_data |-> f.ansible_facts, fact_error |-> <<>>]
    ELSE IF f.unreachable
         THEN [facts_data |-> EmptyDict,
               fact_error |-> <<"UNREACHABLE: ", MsgOf(f)>>]
    ELSE IF f.failed
         THEN [facts_data |-> EmptyDict,
               fact_error |-> <<"FAILED: ", MsgOf(f)>>]
    ELSE [facts_data |-> EmptyDict, fact_error |-> <<>>]

(***************************************************************************)
(* The fallback search over plays, tasks and hosts.                        *)
(***************************************************************************)
IsGatherTask(task) ==
    task.name = GATHERING_FACTS \/ task.action = "gather_facts"

RECURSIVE ScanHosts(_, _)
ScanHosts(hosts, st) ==
    IF hosts = <<>> THEN st
    ELSE IF Head(hosts).has_facts
         THEN [facts_data |-> Head(hosts).ansible_facts, fact_error |-> <<>>]
         ELSE ScanHosts(Tail(hosts), st)

FoundBreak(st) == Truthy(st.facts_data)

RECURSIVE ScanTasks(_, _)
ScanTasks(tasks, st) ==
    IF tasks = <<>> THEN st
    ELSE LET st1 == IF IsGatherTask(Head(tasks))
                    THEN ScanHosts(Head(tasks).hosts, st)
                    ELSE st
         IN IF FoundBreak(st1) THEN st1 ELSE ScanTasks(Tail(tasks), st1)

RECURSIVE ScanPlays(_, _)
ScanPlays(plays, st) ==
    IF plays = <<>> THEN st
    ELSE LET st1 == ScanTasks(Head(plays).tasks, st)
         IN IF FoundBreak(st1) THEN st1 ELSE ScanPlays(Tail(plays), st1)

(***************************************************************************)
(* The Hostname field.                                                     *)
(***************************************************************************)
HostnameVal(fd, fe) ==
    IF fe # <<>> /\ ~Truthy(fd) THEN <<"ERROR: ">> \o fe
    ELSE IF "ansible_hostname" \in DOMAIN fd /\ fd["ansible_hostname"] # ""
         THEN <<fd["ansible_hostname"]>>
         ELSE <<"N/A">>

KernelVal(fd) ==
    IF "ansible_kernel" \in DOMAIN fd THEN fd["ansible_kernel"] ELSE "N/A"

(***************************************************************************)
(* The fold of one task's host outcomes.                                   *)
(***************************************************************************)
\* Variant: the skipped branch also spares UNREACHABLE.
StatusStepSparesUnreachable(status, res) ==
    IF res.failed THEN "FAILED"
    ELSE IF res.unreachable THEN "UNREACHABLE"
    ELSE IF res.skipped /\ status \notin {"FAILED", "UNREACHABLE"} THEN "SKIPPED"
    ELSE "OK"

StatusStep(status, res) ==
    IF res.failed THEN "FAILED"
    ELSE IF res.unreachable THEN "UNREACHABLE"
    ELSE IF res.skipped /\ status # "FAILED" THEN "SKIPPED"
    ELSE "OK"

\* Variant: the last host decides.
ChangedStepLastHost(changed, res) ==
    IF res.changed THEN "Yes" ELSE "No"

ChangedStep(changed, res) ==
    IF res.changed THEN "Yes" ELSE changed

RECURSIVE FoldHosts(_, _)
FoldHosts(hosts, acc) ==
    IF hosts = <<>> THEN acc
    ELSE FoldHosts(Tail(hosts),
                   [status  |-> StatusStep(acc.status, Head(hosts)),
                    changed |-> ChangedStep(acc.changed, Head(hosts))])

\* Variant: the exclusion tests the cleaned name.
SkipsTaskByCleanName(task_name_raw, task) ==
    clean_task_name(task_name_raw) = GATHERING_FACTS

\* Variant: the exclusion uses the fallback's match (name or action).
SkipsTaskByNameOrAction(task_name_raw, task) ==
    task_name_raw = GATHERING_FACTS \/ task.action = "gather_facts"

SkipsTask(task_name_raw, task) == task_name_raw = GATHERING_FACTS

TaskEntry(task) ==
    LET acc == FoldHosts(task.hosts, [status |-> "SKIPPED", changed |-> "No"])
    IN [task    |-> clean_task_name(task.name),
        status  |-> acc.status,
        changed |-> acc.changed]

(***************************************************************************)
(* The rendered task name.                                                 *)
(***************************************************************************)
\* Variant: names of exactly TruncLimit characters are cut too.
RenderedNameAtLimit(task_name) ==
    IF Len(task_name) >= TruncLimit
    THEN SubSeq(task_name, 1, TruncKeep) \o ELLIPSIS
    ELSE task_name

RenderedName(task_name) ==
    IF Len(task_name) > TruncLimit
    THEN SubSeq(task_name, 1, TruncKeep) \o ELLIPSIS
    ELSE task_name

\* The text of a row's first cell: the name after a two-space indent.
TaskCell(task_name) == <<" ", " ">> \o task_name

(***************************************************************************)
(* Inputs.                                                                 *)
(***************************************************************************)
SeqsUpTo(S, n) == UNION {[1..k -> S] : k \in 0..n}

Str1(c) == <<c>>
ROLE_PREFIX == <<"r", " ", ":", " ">>
DIGITS == <<"0","1","2","3","4","5","6","7","8","9">>
Body(n) == [i \in 1..n |-> DIGITS[((i - 1) % 10) + 1]]

NoFactsFile ==
    [kind |-> "none", has_facts |-> FALSE, ansible_facts |-> EmptyDict,
     unreachable |-> FALSE, failed |-> FALSE, has_msg |-> FALSE, msg |-> ""]

Outcome(f, u, s, c) ==
    [failed |-> f, unreachable |-> u, skipped |-> s, changed |-> c,
     has_facts |-> FALSE, ansible_facts |-> EmptyDict]

FactsOutcome(d) ==
    [failed |-> FALSE, unreachable |-> FALSE, skipped |-> FALSE,
     changed |-> FALSE, has_facts |-> TRUE, ansible_facts |-> d]

FlagOutcomes ==
    {Outcome(f, u, s, c) : f \in BOOLEAN, u \in BOOLEAN,
                           s \in BOOLEAN, c \in BOOLEAN}

Task(n, a, hs) == [name |-> n, action |-> a, hosts |-> hs]
Play(ts) == [tasks |-> ts]
Trace(ps) == [has_plays |-> TRUE, plays |-> ps]
NoPlays == [has_plays |-> FALSE, plays |-> <<>>]

ShortNames ==
    {GATHERING_FACTS, ROLE_PREFIX \o GATHERING_FACTS, Str1("t"), Str1("u")}

TimelineTasks ==
    {Task(n, a, <<Outcome(FALSE, FALSE, FALSE, TRUE)>>) :
        n \in ShortNames, a \in {"command", "gather_facts"}}

OddNames ==
    {<<"a"," ",":"," ","b"," ",":"," ","c">>,
     <<" ",":"," ","x">>,
     <<"x"," ",":"," ">>,
     <<"a"," ",":","b">>,
     <<>>}

LongNames ==
    {p \o Body(n) : p \in {<<>>, ROLE_PREFIX},
                    n \in (TruncKeep - 1)..MaxNameLen}

Node(h) == [k \in {"ansible_hostname", "ansible_kernel"} |->
               IF k = "ansible_hostname" THEN h ELSE "6.1"]
KernelOnly == [k \in {"ansible_kernel"} |-> "6.1"]
FactDicts == {EmptyDict, Node("node1"), Node("node2"), KernelOnly}

FactHosts ==
    {Outcome(FALSE, FALSE, FALSE, FALSE)} \cup
    {FactsOutcome(d) : d \in {EmptyDict, Node("node1"), Node("node2")}}

FactsFiles ==
    {[NoFactsFile EXCEPT !.kind = k] : k \in {"none", "missing", "unparseable"}}
    \cup {[kind |-> "ok", has_facts |-> TRUE, ansible_facts |-> d,
           unreachable |-> u, failed |-> FALSE, has_msg |-> FALSE, msg |-> ""] :
             d \in FactDicts, u \in BOOLEAN}
    \cup {[kind |-> "ok", has_facts |-> FALSE, ansible_facts |-> EmptyDict,
           unreachable |-> u, failed |-> f, has_msg |-> hm,
           msg |-> IF hm THEN "boom" ELSE ""] :
             u \in BOOLEAN, f \in BOOLEAN, hm \in BOOLEAN}

FailedFile ==
    [kind |-> "ok", has_facts |-> FALSE, ansible_facts |-> EmptyDict,
     unreachable |-> FALSE, failed |-> TRUE, has_msg |-> TRUE, msg |-> "boom"]

GatherKinds ==
    {<<GATHERING_FACTS, "setup">>, <<Str1("t"), "gather_facts">>,
     <<Str1("t"), "command">>}

Start(a, pf, pd, fi) ==
    /\ argc = a
    /\ playbook_file = pf
    /\ playbook_data = pd
    /\ facts_in = fi
    /\ pc = "start"
    /\ facts_data = EmptyDict
    /\ fact_error = <<>>
    /\ system_info = [Hostname |-> <<>>, Kernel |-> ""]
    /\ pi = 1
    /\ ti = 1
    /\ sequential_tasks = <<>>
    /\ json_doc = <<>>
    /\ ri = 1
    /\ pdf_rows = <<>>
    /\ files = {}
    /\ stdout = <<>>
    /\ stderr = <<>>
    /\ exit_status = 0

\* Any number of arguments, any state of the trace file.
InitArgs ==
    \E a \in 0..MaxArgs, pf \in {"ok", "missing", "unparseable"},
       pd \in {NoPlays, Trace(<<>>)} :
        Start(a, pf, pd, NoFactsFile)

\* One task, every sequence of host outcomes.
InitFold ==
    \E hs \in SeqsUpTo(FlagOutcomes, MaxHosts) :
        Start(ArgsUsed, "ok",
              Trace(<<Play(<<Task(Str1("t"), "command", hs)>>)>>), NoFactsFile)

\* Up to MaxTasks tasks spread over two plays.
InitTimeline ==
    \E ts \in SeqsUpTo(TimelineTasks, MaxTasks) :
        \E k \in 0..Len(ts) :
            Start(ArgsUsed, "ok",
                  Trace(<<Play(SubSeq(ts, 1, k)),
                          Play(SubSeq(ts, k + 1, Len(ts)))>>), NoFactsFile)

\* One task, names around the truncation limit and with separators.
InitNames ==
    \E n \in LongNames \cup OddNames :
        Start(ArgsUsed, "ok",
              Trace(<<Play(<<Task(n, "command",
                                  <<Outcome(FALSE, FALSE, FALSE, FALSE)>>)>>)>>),
              NoFactsFile)

\* Every facts file, over a few traces.
InitFactsFile ==
    \E fi \in FactsFiles,
       pd \in {NoPlays, Trace(<<>>)} \cup
               {Trace(<<Play(<<Task(GATHERING_FACTS, "setup",
                                    <<FactsOutcome(d)>>)>>)>>) :
                    d \in {EmptyDict, Node("node1")}} :
        Start(ArgsUsed, "ok", pd, fi)

\* Two tasks, in one play or in two, with and without embedded facts.
InitFallback ==
    \E k1 \in GatherKinds, k2 \in GatherKinds,
       h1 \in SeqsUpTo(FactHosts, 2), h2 \in FactHosts,
       together \in BOOLEAN, fi \in {NoFactsFile, FailedFile} :
        LET t1 == Task(k1[1], k1[2], h1)
            t2 == Task(k2[1], k2[2], <<h2>>)
        IN Start(ArgsUsed, "ok",
                 IF together THEN Trace(<<Play(<<t1, t2>>)>>)
                             ELSE Trace(<<Play(<<t1>>), Play(<<t2>>)>>),
                 fi)

Init ==
    \/ InitArgs
    \/ InitFold
    \/ InitTimeline
    \/ InitNames
    \/ InitFactsFile
    \/ InitFallback

(***************************************************************************)
(* The entry point.                                                        *)
(***************************************************************************)
Inputs == <<argc, playbook_file, playbook_data, facts_in>>

UsageError ==
    /\ pc = "start"
    /\ argc + 1 < ArgvMin
    /\ stdout' = Append(stdout, "Usage")
    /\ exit_status' = 1
    /\ pc' = "done"
    /\ UNCHANGED <<Inputs, facts_data, fact_error, system_info, pi, ti,
                   sequential_tasks, json_doc, ri, pdf_rows, files, stderr>>

\* sys.argv[ArgsUsed] does not exist: the call's arguments cannot be evaluated.
ArgvIndexError ==
    /\ pc = "start"
    /\ ~(argc + 1 < ArgvMin)
    /\ argc < ArgsUsed
    /\ stderr' = Append(stderr, "IndexError")
    /\ exit_status' = 1
    /\ pc' = "done"
    /\ UNCHANGED <<Inputs, facts_data, fact_error, system_info, pi, ti,
                   sequential_tasks, json_doc, ri, pdf_rows, files, stdout>>

CallGenerateReport ==
    /\ pc = "start"
    /\ ~(argc + 1 < ArgvMin)
    /\ argc >= ArgsUsed
    /\ pc' = "load_playbook"
    /\ UNCHANGED <<Inputs, facts_data, fact_error, system_info, pi, ti,
                   sequential_tasks, json_doc, ri, pdf_rows, files, stdout,
                   stderr, exit_status>>

(***************************************************************************)
(* generate_report.                                                        *)
(***************************************************************************)
\* The except branch prints and returns; the script then ends normally.
LoadPlaybookError ==
    /\ pc = "load_playbook"
    /\ playbook_file # "ok"
    /\ stdout' = Append(stdout, "Error loading playbook json")
    /\ exit_status' = 0
    /\ pc' = "done"
    /\ UNCHANGED <<Inputs, facts_data, fact_error, system_info, pi, ti,
                   sequential_tasks, json_doc, ri, pdf_rows, files, stderr>>

LoadPlaybook ==
    /\ pc = "load_playbook"
    /\ playbook_file = "ok"
    /\ pc' = "read_facts"
    /\ UNCHANGED <<Inputs, facts_data, fact_error, system_info, pi, ti,
                   sequential_tasks, json_doc, ri, pdf_rows, files, stdout,
                   stderr, exit_status>>

ReadFacts ==
    /\ pc = "read_facts"
    /\ facts_data' = FactsLoaded(facts_in).facts_data
    /\ fact_error' = FactsLoaded(facts_in).fact_error
    /\ stdout' = IF facts_in.kind = "unparseable"
                 THEN Append(stdout, "Error loading facts file")
                 ELSE stdout
    /\ pc' = "fallback"
    /\ UNCHANGED <<Inputs, system_info, pi, ti, sequential_tasks, json_doc,
                   ri, pdf_rows, files, stderr, exit_status>>

Fallback ==
    /\ pc = "fallback"
    /\ IF ~Truthy(facts_data) /\ playbook_data.has_plays
       THEN LET st == ScanPlays(playbook_data.plays,
                                [facts_data |-> facts_data,
                                 fact_error |-> fact_error])
            IN /\ facts_data' = st.facts_data
               /\ fact_error' = st.fact_error
               /\ stdout' = Append(stdout, "Using fallback facts")
       ELSE UNCHANGED <<facts_data, fact_error, stdout>>
    /\ pc' = "extract"
    /\ UNCHANGED <<Inputs, system_info, pi, ti, sequential_tasks, json_doc,
                   ri, pdf_rows, files, stderr, exit_status>>

Extract ==
    /\ pc = "extract"
    /\ system_info' = [Hostname |-> HostnameVal(facts_data, fact_error),
                       Kernel   |-> KernelVal(facts_data)]
    /\ pc' = "tasks"
    /\ UNCHANGED <<Inputs, facts_data, fact_error, pi, ti, sequential_tasks,
                   json_doc, ri, pdf_rows, files, stdout, stderr, exit_status>>

InTaskLoop ==
    /\ pc = "tasks"
    /\ playbook_data.has_plays
    /\ pi <= Len(playbook_data.plays)

ProcessTask ==
    /\ InTaskLoop
    /\ ti <= Len(playbook_data.plays[pi].tasks)
    /\ LET task == playbook_data.plays[pi].tasks[ti]
       IN sequential_tasks' =
            IF SkipsTask(task.name, task) THEN sequential_tasks
            ELSE Append(sequential_tasks, TaskEntry(task))
    /\ ti' = ti + 1
    /\ UNCHANGED <<Inputs, pc, facts_data, fact_error, system_info, pi,
                   json_doc, ri, pdf_rows, files, stdout, stderr, exit_status>>

NextPlay ==
    /\ InTaskLoop
    /\ ti > Len(playbook_data.plays[pi].tasks)
    /\ pi' = pi + 1
    /\ ti' = 1
    /\ UNCHANGED <<Inputs, pc, facts_data, fact_error, system_info,
                   sequential_tasks, json_doc, ri, pdf_rows, files, stdout,
                   stderr, exit_status>>

TasksDone ==
    /\ pc = "tasks"
    /\ ~InTaskLoop
    /\ pc' = "write_json"
    /\ UNCHANGED <<Inputs, facts_data, fact_error, system_info, pi, ti,
                   sequential_tasks, json_doc, ri, pdf_rows, files, stdout,
                   stderr, exit_status>>

WriteJson ==
    /\ pc = "write_json"
    /\ json_doc' = <<[system_info        |-> system_info,
                      playbook_execution |-> sequential_tasks]>>
    /\ files' = files \cup {"final_report.json"}
    /\ stdout' = Append(stdout, "Unified JSON Report")
    /\ pc' = "render"
    /\ UNCHANGED <<Inputs, facts_data, fact_error, system_info, pi, ti,
                   sequential_tasks, ri, pdf_rows, stderr, exit_status>>

RenderRow ==
    /\ pc = "render"
    /\ ri <= Len(sequential_tasks)
    /\ LET t == sequential_tasks[ri]
       IN pdf_rows' = Append(pdf_rows, [task    |-> TaskCell(RenderedName(t.task)),
                                        status  |-> t.status,
                                        changed |-> t.changed])
    /\ ri' = ri + 1
    /\ UNCHANGED <<Inputs, pc, facts_data, fact_error, system_info, pi, ti,
                   sequential_tasks, json_doc, files, stdout, stderr,
                   exit_status>>

PdfOutput ==
    /\ pc = "render"
    /\ ri > Len(sequential_tasks)
    /\ files' = files \cup {"report.pdf"}
    /\ stdout' = Append(stdout, "PDF Report Generated")
    /\ exit_status' = 0
    /\ pc' = "done"
    /\ UNCHANGED <<Inputs, facts_data, fact_error, system_info, pi, ti,
                   sequential_tasks, json_doc, ri, pdf_rows, stderr>>

Next ==
    \/ UsageError
    \/ ArgvIndexError
    \/ CallGenerateReport
    \/ LoadPlaybookError
    \/ LoadPlaybook
    \/ ReadFacts
    \/ Fallback
    \/ Extract
    \/ ProcessTask
    \/ NextPlay
    \/ TasksDone
    \/ WriteJson
    \/ RenderRow
    \/ PdfOutput

Spec == Init /\ [][Next]_vars

(***************************************************************************)
(* Vocabulary of the properties.                                           *)
(***************************************************************************)
RECURSIVE TasksOf(_)
TasksOf(plays) ==
    IF plays = <<>> THEN <<>>
    ELSE Head(plays).tasks \o TasksOf(Tail(plays))

RECURSIVE HostsOf(_)
HostsOf(tasks) ==
    IF tasks = <<>> THEN <<>>
    ELSE Head(tasks).hosts \o HostsOf(Tail(tasks))

AllTasks == IF playbook_data.has_plays THEN TasksOf(playbook_data.plays) ELSE <<>>

NamedGatheringFacts(t) == t.name = GATHERING_FACTS
NotNamedGatheringFacts(t) == t.name # GATHERING_FACTS
NameOrActionBootstrap(t) ==
    t.name = GATHERING_FACTS \/ t.action = "gather_facts"
CarriesFacts(res) == res.has_facts

KeptTasks == SelectSeq(AllTasks, NotNamedGatheringFacts)

Count(seq, Test(_)) == Cardinality({i \in 1..Len(seq) : Test(seq[i])})

\* The timeline loop has run to its end.
TimelineBuilt == pc \in {"write_json", "render"} \/ (pc = "done" /\ json_doc # <<>>)

\* generate_report has passed the extraction of the system information.
Extracted == pc \in {"tasks", "write_json", "render"}

\* The timeline loop has just handled a task that it reports.
JustReported ==
    /\ pc = "tasks"
    /\ ti > 1
    /\ playbook_data.plays[pi].tasks[ti - 1].name # GATHERING_FACTS

LastTask == playbook_data.plays[pi].tasks[ti - 1]
LastEntry == sequential_tasks[Len(sequential_tasks)]

AnyFailed(hosts) == \E i \in 1..Len(hosts) : hosts[i].failed
AnyChanged(hosts) == \E i \in 1..Len(hosts) : hosts[i].changed
OnlySkipped(res) == res.skipped /\ ~res.failed /\ ~res.unreachable

\* Host k is unreachable, no host failed, every host after k is skipped.
UnreachableThenSkipped(hosts, k) ==
    /\ ~AnyFailed(hosts)
    /\ hosts[k].unreachable
    /\ \A j \in (k + 1)..Len(hosts) : OnlySkipped(hosts[j])

(***************************************************************************)
(* C1 (as claimed): a reported task with at least one failed host has      *)
(* status FAILED, whatever the order of its hosts.                         *)
(***************************************************************************)
C1_FailedSticks ==
    JustReported => (AnyFailed(LastTask.hosts) => LastEntry.status = "FAILED")

(***************************************************************************)
(* C2: a reported task's changed value is "Yes" exactly when one of its    *)
(* hosts has changed=true, "No" otherwise (also with no hosts), whatever   *)
(* the order and the status flags of the hosts.                            *)
(***************************************************************************)
C2_ChangedIsOr ==
    JustReported =>
        LastEntry.changed = IF AnyChanged(LastTask.hosts) THEN "Yes" ELSE "No"

C2_Witness ==
    /\ JustReported
    /\ Len(LastTask.hosts) >= 2
    /\ LastTask.hosts[1].changed
    /\ LastTask.hosts[1].failed
    /\ ~LastTask.hosts[Len(LastTask.hosts)].changed
    /\ LastEntry.changed = "Yes"

(***************************************************************************)
(* C3: once the timeline is built, playbook_execution is the subsequence,  *)
(* in play-then-task order, of the tasks whose raw name is not literally   *)
(* "Gathering Facts": as many entries as tasks minus those so named, the   *)
(* i-th entry being that of the i-th such task.                            *)
(***************************************************************************)
C3_TimelineIsSubsequence ==
    TimelineBuilt =>
        /\ Len(sequential_tasks) =
              Len(AllTasks) - Count(AllTasks, NamedGatheringFacts)
        /\ Len(sequential_tasks) = Len(KeptTasks)
        /\ \A i \in 1..Len(KeptTasks) :
              /\ sequential_tasks[i].task = clean_task_name(KeptTasks[i].name)
              /\ sequential_tasks[i] = TaskEntry(KeptTasks[i])
        /\ json_doc # <<>> =>
              json_doc[1].playbook_execution = sequential_tasks

C3_Witness ==
    /\ TimelineBuilt
    /\ Len(playbook_data.plays) = 2
    /\ Len(playbook_data.plays[1].tasks) = 1
    /\ Len(AllTasks) = 3
    /\ AllTasks[1].name = <<"u">>
    /\ AllTasks[2].name = GATHERING_FACTS
    /\ AllTasks[3].name = ROLE_PREFIX \o GATHERING_FACTS
    /\ Len(sequential_tasks) = 2
    /\ sequential_tasks[1].task = <<"u">>
    /\ sequential_tasks[2].task = GATHERING_FACTS

(***************************************************************************)
(* C4: which tasks the timeline holds, as a bag: every entry occurs as     *)
(* often as there are non-bootstrap tasks producing it.                    *)
(***************************************************************************)
TimelineHoldsAllBut(Bootstrap(_)) ==
    \A e \in {sequential_tasks[i] : i \in 1..Len(sequential_tasks)}
             \cup {TaskEntry(AllTasks[j]) : j \in 1..Len(AllTasks)} :
        Cardinality({i \in 1..Len(sequential_tasks) : sequential_tasks[i] = e})
          = Cardinality({j \in 1..Len(AllTasks) :
                            /\ ~Bootstrap(AllTasks[j])
                            /\ TaskEntry(AllTasks[j]) = e})

\* C4 (as claimed): the timeline leaves out exactly the tasks named
\* "Gathering Facts" or with action "gather_facts".
C4_ExcludesByNameOrAction ==
    TimelineBuilt => TimelineHoldsAllBut(NameOrActionBootstrap)

\* C4 (amended): the timeline leaves out exactly the tasks whose raw name is
\* "Gathering Facts"; a task with action "gather_facts" under another name
\* is present.
C4_ExcludesByNameOnly ==
    TimelineBuilt => TimelineHoldsAllBut(NamedGatheringFacts)

C4_Witness ==
    /\ TimelineBuilt
    /\ Len(AllTasks) = 2
    /\ AllTasks[1].name = <<"t">>
    /\ AllTasks[1].action = "gather_facts"
    /\ AllTasks[2].name = GATHERING_FACTS
    /\ AllTasks[2].action = "command"
    /\ Len(sequential_tasks) = 1
    /\ sequential_tasks[1].task = <<"t">>

(***************************************************************************)
(* C5 (as claimed): when the snapshot gives no facts and the trace has     *)
(* plays, the fact set is the embedded mapping of the first host, in       *)
(* play/task/host order, carrying one inside a gather task; nothing later  *)
(* overrides it, the error marker is cleared, and Hostname is that         *)
(* mapping's ansible_hostname.                                             *)
(***************************************************************************)
SnapshotEmpty ==
    ~(facts_in.kind = "ok" /\ facts_in.has_facts
        /\ DOMAIN facts_in.ansible_facts # {})

GatherHostsWithFacts ==
    SelectSeq(HostsOf(SelectSeq(AllTasks, NameOrActionBootstrap)), CarriesFacts)

C5_FallbackFirstMatchWins ==
    (Extracted /\ SnapshotEmpty /\ playbook_data.has_plays
        /\ GatherHostsWithFacts # <<>>) =>
        LET m == Head(GatherHostsWithFacts).ansible_facts
        IN /\ facts_data = m
           /\ fact_error = <<>>
           /\ "ansible_hostname" \in DOMAIN m =>
                 system_info.Hostname = <<m["ansible_hostname"]>>

(***************************************************************************)
(* C6 (as claimed): a snapshot signalling unreachable or failed with       *)
(* message m, and a fallback that leaves the fact set empty, give          *)
(* Hostname "ERROR: UNREACHABLE: m" or "ERROR: FAILED: m".                 *)
(***************************************************************************)
C6_ErrorMarkerSurfaces ==
    (Extracted /\ facts_in.kind = "ok" /\ ~facts_in.has_facts
        /\ facts_in.has_msg /\ (facts_in.unreachable \/ facts_in.failed)
        /\ DOMAIN facts_data = {}) =>
        \/ /\ facts_in.unreachable
           /\ system_info.Hostname = <<"ERROR: ", "UNREACHABLE: ", facts_in.msg>>
        \/ /\ facts_in.failed
           /\ system_info.Hostname = <<"ERROR: ", "FAILED: ", facts_in.msg>>

(***************************************************************************)
(* C7 (as claimed): with the three arguments given and the trace file      *)
(* missing or unparseable, the run ends with no file written and a         *)
(* non-zero exit status.                                                   *)
(***************************************************************************)
C7_TraceErrorAborts ==
    (pc = "done" /\ argc >= 3 /\ playbook_file # "ok") =>
        /\ files = {}
        /\ exit_status # 0

(***************************************************************************)
(* C8 (as claimed): with 0, 1 or 2 arguments the run prints the usage      *)
(* message and ends with a non-zero status, report generation not started. *)
(***************************************************************************)
C8_UsageOnMissingArgs ==
    (pc = "done" /\ argc < 3) =>
        /\ stdout = <<"Usage">>
        /\ exit_status # 0
        /\ files = {}

(***************************************************************************)
(* C9: the name of every rendered row is the cleaned name when that has at *)
(* most 90 characters, else its first 87 characters followed by "...", 90  *)
(* characters in all; the name in the structured document is the cleaned   *)
(* name, never cut.                                                        *)
(***************************************************************************)
C9_RenderedNameBound ==
    /\ \A i \in 1..Len(pdf_rows) :
          LET n == clean_task_name(KeptTasks[i].name)
              r == SubSeq(pdf_rows[i].task, 3, Len(pdf_rows[i].task))
          IN /\ SubSeq(pdf_rows[i].task, 1, 2) = <<" ", " ">>
             /\ Len(n) > 90 =>
                   /\ r = SubSeq(n, 1, 87) \o <<".", ".", ".">>
                   /\ Len(r) = 90
             /\ Len(n) <= 90 => r = n
             /\ Len(r) <= 90
    /\ json_doc # <<>> =>
          \A i \in 1..Len(json_doc[1].playbook_execution) :
              json_doc[1].playbook_execution[i].task =
                  clean_task_name(KeptTasks[i].name)

C9_Witness ==
    /\ pc = "done"
    /\ Len(pdf_rows) = 1
    /\ Len(AllTasks[1].name) = 99
    /\ Len(json_doc[1].playbook_execution[1].task) = 95
    /\ Len(pdf_rows[1].task) = 92
    /\ pdf_rows[1].task[3] = "0"
    /\ pdf_rows[1].task[89] = "6"
    /\ pdf_rows[1].task[90] = "."

(***************************************************************************)
(* C10 (as claimed): in a task with no failed host, an unreachable host    *)
(* followed only by skipped hosts leaves the status UNREACHABLE.           *)
(***************************************************************************)
C10_UnreachableNotDowngraded ==
    JustReported =>
        \A k \in 1..Len(LastTask.hosts) :
            UnreachableThenSkipped(LastTask.hosts, k) =>
                LastEntry.status = "UNREACHABLE"

\* C10 (amended): in a task with no failed host, an unreachable host followed
\* only by skipped hosts leaves the status UNREACHABLE when it is the last
\* host, and SKIPPED when at least one skipped host follows it.
C10_UnreachableDowngradedBySkipped ==
    JustReported =>
        \A k \in 1..Len(LastTask.hosts) :
            UnreachableThenSkipped(LastTask.hosts, k) =>
                LastEntry.status = IF k = Len(LastTask.hosts)
                                   THEN "UNREACHABLE" ELSE "SKIPPED"

C10_Witness ==
    /\ JustReported
    /\ Len(LastTask.hosts) = 2
    /\ UnreachableThenSkipped(LastTask.hosts, 1)
    /\ LastEntry.status = "SKIPPED"

====
